---------------------------- MODULE Spec2Model ----------------------------
(* A model of utils.py of HexaLayout: the grouped random batch sampler,    *)
(* the bounding-box rasterizer, the multi-class grid IoU metric and the    *)
(* evaluation loop.  Each component has its own specification; the         *)
(* variables of the components a specification does not exercise stay at   *)
(* their idle values.                                                      *)
EXTENDS Integers, Sequences, FiniteSets

VARIABLES
    \* RandomBatchSampler: the fields and the locals of one __iter__ call
    sampler, batch_size, drop_last,
    spc, pos, batch, all_batches, rand_index, yield_pos, yielded,
    prev_yielded, traversal,
    \* bounding_box_to_matrix_image
    one_target, idx, bounding_box_map, rstatus,
    \* compute_bbox_matrix_iou
    labels, predictions, n_classes, cls, mean_iou, seen_classes, class_iou, istatus,
    \* evaluation
    pulled, ts_list, predicted_maps, iou_list, bbox_matrix, estatus, result

samplerVars == <<sampler, batch_size, drop_last, spc, pos, batch, all_batches,
                 rand_index, yield_pos, yielded, prev_yielded, traversal>>
rasterVars == <<one_target, idx, bounding_box_map, rstatus>>
iouVars == <<labels, predictions, n_classes, cls, mean_iou, seen_classes, class_iou, istatus>>
evalVars == <<pulled, ts_list, predicted_maps, iou_list, bbox_matrix, estatus, result>>
vars == <<samplerVars, rasterVars, iouVars, evalVars>>

-----------------------------------------------------------------------------
(* Bounds of the model *)

\* longest underlying index sequence; its indices are drawn from 0..MaxN-1
MaxN == 3
\* largest batch size
MaxB == 3
\* number of traversals (__iter__ calls) of one sampler
MaxTraversals == 2
\* most boxes of one annotation
MaxBoxes == 2
\* cells of the grids given to the IoU metric, their labels 0..MaxLabel, and
\* the largest n_classes
IouCells == 2
MaxLabel == 2
MaxClasses == 3
\* most batches the data loader gives, and most samples of one batch
MaxBatches == 2
MaxSamples == 2

-----------------------------------------------------------------------------
(* Helpers *)

Range(s) == {s[k] : k \in 1..Len(s)}

Min(a, b) == IF a <= b THEN a ELSE b

Injective(s) == \A a, b \in 1..Len(s) : s[a] = s[b] => a = b

\* the sequences over S of length at most n
SeqsUpTo(S, n) == UNION {[1..m -> S] : m \in 0..n}

\* number of positions of s holding x
Count(s, x) == Cardinality({k \in 1..Len(s) : s[k] = x})

RECURSIVE Flatten(_)
Flatten(ss) == IF ss = <<>> THEN <<>> ELSE Head(ss) \o Flatten(Tail(ss))

-----------------------------------------------------------------------------
(* RandomBatchSampler *)

\* the body of "for idx in self.sampler": append, and close the batch when full,
\* forgetting to start a new batch
FillStepNoReset(batches, b, i, B) ==
    LET nb == Append(b, i)
    IN IF Len(nb) = B THEN [all_batches |-> Append(batches, nb), batch |-> nb]
                      ELSE [all_batches |-> batches, batch |-> nb]

\* the body of "for idx in self.sampler": append, and close the batch when full
FillStep(batches, b, i, B) ==
    LET nb == Append(b, i)
    IN IF Len(nb) = B THEN [all_batches |-> Append(batches, nb), batch |-> <<>>]
                      ELSE [all_batches |-> batches, batch |-> nb]

\* the partial batch is never kept
KeepPartialNever(b, drop) == FALSE

\* the partial batch is kept whatever the flag says
KeepPartialAlways(b, drop) == Len(b) > 0

\* "if len(batch) > 0 and not self.drop_last"
KeepPartial(b, drop) == Len(b) > 0 /\ ~drop

\* torch.randperm(n).tolist(): the permutations of 0..n-1, as lists
RandPerm(n) == {p \in [1..n -> 0..(n - 1)] : Injective(p)}

\* floor division whatever the flag
SamplerLenFloor(N, B, drop) == N \div B

\* RandomBatchSampler.__len__
SamplerLen(N, B, drop) ==
    IF drop THEN N \div B ELSE (N + B - 1) \div B

SamplerInit ==
    /\ sampler \in {s \in SeqsUpTo(0..(MaxN - 1), MaxN) : Injective(s)}
    /\ batch_size \in 1..MaxB
    /\ drop_last \in BOOLEAN
    /\ spc = "fill"
    /\ pos = 0
    /\ batch = <<>>
    /\ all_batches = <<>>
    /\ rand_index = <<>>
    /\ yield_pos = 0
    /\ yielded = <<>>
    /\ prev_yielded = <<>>
    /\ traversal = 1

SamplerIdle ==
    /\ sampler = <<>> /\ batch_size = 1 /\ drop_last = FALSE
    /\ spc = "idle" /\ pos = 0 /\ batch = <<>> /\ all_batches = <<>>
    /\ rand_index = <<>> /\ yield_pos = 0 /\ yielded = <<>>
    /\ prev_yielded = <<>> /\ traversal = 0

\* one iteration of "for idx in self.sampler"
SamplerDraw ==
    /\ spc = "fill"
    /\ pos < Len(sampler)
    /\ LET r == FillStep(all_batches, batch, sampler[pos + 1], batch_size)
       IN /\ all_batches' = r.all_batches
          /\ batch' = r.batch
    /\ pos' = pos + 1
    /\ UNCHANGED <<sampler, batch_size, drop_last, spc, rand_index, yield_pos,
                   yielded, prev_yielded, traversal>>
    /\ UNCHANGED <<rasterVars, iouVars, evalVars>>

\* the underlying sequence is exhausted: the trailing batch, then randperm
SamplerShuffle ==
    /\ spc = "fill"
    /\ pos = Len(sampler)
    /\ all_batches' = IF KeepPartial(batch, drop_last)
                      THEN Append(all_batches, batch) ELSE all_batches
    /\ rand_index' \in RandPerm(Len(all_batches'))
    /\ spc' = "yield"
    /\ yield_pos' = 0
    /\ UNCHANGED <<sampler, batch_size, drop_last, pos, batch, yielded,
                   prev_yielded, traversal>>
    /\ UNCHANGED <<rasterVars, iouVars, evalVars>>

\* "for index in rand_index: yield all_batches[index]"
SamplerYield ==
    /\ spc = "yield"
    /\ yield_pos < Len(rand_index)
    /\ yielded' = Append(yielded, all_batches[rand_index[yield_pos + 1] + 1])
    /\ yield_pos' = yield_pos + 1
    /\ UNCHANGED <<sampler, batch_size, drop_last, spc, pos, batch, all_batches,
                   rand_index, prev_yielded, traversal>>
    /\ UNCHANGED <<rasterVars, iouVars, evalVars>>

\* the generator returns
SamplerExhaust ==
    /\ spc = "yield"
    /\ yield_pos = Len(rand_index)
    /\ spc' = "done"
    /\ UNCHANGED <<sampler, batch_size, drop_last, pos, batch, all_batches,
                   rand_index, yield_pos, yielded, prev_yielded, traversal>>
    /\ UNCHANGED <<rasterVars, iouVars, evalVars>>

\* __iter__ is called again on the same sampler
SamplerIterAgain ==
    /\ spc = "done"
    /\ traversal < MaxTraversals
    /\ prev_yielded' = yielded
    /\ traversal' = traversal + 1
    /\ spc' = "fill"
    /\ pos' = 0
    /\ batch' = <<>>
    /\ all_batches' = <<>>
    /\ rand_index' = <<>>
    /\ yield_pos' = 0
    /\ yielded' = <<>>
    /\ UNCHANGED <<sampler, batch_size, drop_last>>
    /\ UNCHANGED <<rasterVars, iouVars, evalVars>>

-----------------------------------------------------------------------------
(* bounding_box_to_matrix_image *)

\* np.full((800, 800), 9)
GridSize == 800
Background == 9
\* bb * 10 + 400
Scale == 10
Offset == 400

\* A box coordinate is the real number u / Tick, held as the integer u; the
\* grid value u / Tick * 10 + 400 is then a multiple of half a cell.
Tick == 2 * Scale

MinOf(row) == CHOOSE m \in Range(row) : \A v \in Range(row) : m <= v
MaxOf(row) == CHOOSE m \in Range(row) : \A v \in Range(row) : m >= v

\* np.floor(u / Tick * 10 + 400) and np.ceil(u / Tick * 10 + 400)
FloorGrid(u) == (u * Scale + Offset * Tick) \div Tick
CeilGrid(u) == -((-(u * Scale + Offset * Tick)) \div Tick)

\* min_y, min_x = np.floor((bb * 10 + 400).numpy().min(axis=1))
\* max_y, max_x = np.ceil((bb * 10 + 400).numpy().max(axis=1))
\* (bb has two rows of four corner coordinates; the first row gives *_y)
BoxRect(bb) ==
    [min_y |-> FloorGrid(MinOf(bb[1])), min_x |-> FloorGrid(MinOf(bb[2])),
     max_y |-> CeilGrid(MaxOf(bb[1])), max_x |-> CeilGrid(MaxOf(bb[2]))]

\* the row is indexed from the start of the axis
RowIndexFromStart(i) == i

\* bounding_box_map[-i]
RowIndex(i) == -i

\* a Python index k of an axis of length n: in range, and the position it names
IndexOk(k, n) == -n <= k /\ k < n
IndexPos(k, n) == IF k < 0 THEN k + n ELSE k

\* the value of bounding_box_map[r][c] in the sparse map m of the written cells
Cell(m, r, c) == IF <<r, c>> \in DOMAIN m THEN m[<<r, c>>] ELSE Background

\* the (i, j) of "for i in range(min_x, max_x): for j in range(min_y, max_y)"
Attempts(rect) == (rect.min_x..(rect.max_x - 1)) \X (rect.min_y..(rect.max_y - 1))

\* the assignment at (i, j) raises IndexError
BadIndex(a) == ~IndexOk(RowIndex(a[1]), GridSize) \/ ~IndexOk(a[2], GridSize)

\* b is reached no later than a in the nested loops
NotAfter(b, a) == b[1] < a[1] \/ (b[1] = a[1] /\ b[2] <= a[2])

BoxRaises(rect) == \E a \in Attempts(rect) : BadIndex(a)

\* the grid cells assigned before the loops end or raise
BoxCells(rect) ==
    {<<IndexPos(RowIndex(a[1]), GridSize), IndexPos(a[2], GridSize)>> :
        a \in {a \in Attempts(rect) :
                 ~\E b \in Attempts(rect) : BadIndex(b) /\ NotAfter(b, a)}}

\* a cell written before keeps its label
StampKeepFirst(m, cells, label) ==
    [cell \in DOMAIN m \cup cells |-> IF cell \in DOMAIN m THEN m[cell] ELSE label]

\* bounding_box_map[-i][j] = label, for the cells of one box
Stamp(m, cells, label) ==
    [cell \in DOMAIN m \cup cells |-> IF cell \in cells THEN label ELSE m[cell]]

\* the categories of the model's annotations (a category is one of 0..8)
Categories == {2, 5}

\* rows of four corner coordinates, by the grid values they map to
CornerRows ==
    { <<-799, -797, -798, -799>>,   \* 0.5, 1.5, 1, 0.5         : [0, 2)
      <<-798, -794, -795, -797>>,   \* 1, 3, 2.5, 1.5           : [1, 3)
      <<797, 799, 798, 798>>,       \* 798.5, 799.5, 799, 799   : [798, 800)
      <<-801, -799, -800, -800>>,   \* -0.5, 0.5, 0, 0          : [-1, 1)
      <<798, 803, 800, 800>> }      \* 799, 801.5, 800, 800     : [799, 802)

Boxes == [category : Categories, bb : CornerRows \X CornerRows]

NewGrid == [cell \in {} |-> Background]

\* the whole function: the map and whether it returned; boxes from k on
RECURSIVE RasterFrom(_, _, _)
RasterFrom(m, target, k) ==
    IF k > Len(target) THEN [map |-> m, status |-> "returned"]
    ELSE LET rect == BoxRect(target[k].bb)
             m2 == Stamp(m, BoxCells(rect), target[k].category)
         IN IF BoxRaises(rect) THEN [map |-> m2, status |-> "IndexError"]
            ELSE RasterFrom(m2, target, k + 1)

RasterInit ==
    /\ one_target \in SeqsUpTo(Boxes, MaxBoxes)
    /\ idx = 0
    /\ bounding_box_map = NewGrid
    /\ rstatus = "running"

\* one iteration of "for idx, bb in enumerate(one_target['bounding_box'])"
RasterBox ==
    /\ rstatus = "running"
    /\ idx < Len(one_target)
    /\ LET label == one_target[idx + 1].category
           rect == BoxRect(one_target[idx + 1].bb)
       IN /\ bounding_box_map' = Stamp(bounding_box_map, BoxCells(rect), label)
          /\ rstatus' = IF BoxRaises(rect) THEN "IndexError" ELSE "running"
    /\ idx' = idx + 1
    /\ UNCHANGED one_target
    /\ UNCHANGED <<samplerVars, iouVars, evalVars>>

\* return bounding_box_map
RasterReturn ==
    /\ rstatus = "running"
    /\ idx = Len(one_target)
    /\ rstatus' = "returned"
    /\ UNCHANGED <<one_target, idx, bounding_box_map>>
    /\ UNCHANGED <<samplerVars, iouVars, evalVars>>

-----------------------------------------------------------------------------
(* compute_bbox_matrix_iou *)

\* Quotients are exact rationals <<numerator, denominator>> in lowest terms.
RECURSIVE Gcd(_, _)
Gcd(a, b) == IF b = 0 THEN a ELSE Gcd(b, a % b)

Rat(n, d) == LET g == Gcd(n, d) IN <<n \div g, d \div g>>
RatAdd(a, b) == Rat(a[1] * b[2] + b[1] * a[2], a[2] * b[2])
RatDivInt(a, n) == Rat(a[1], a[2] * n)

\* (grid != c).sum(), the grid a flat sequence of cell labels
SumNotEqual(grid, c) == Cardinality({k \in 1..Len(grid) : grid[k] # c})

\* np.logical_and(labels_c, pred_c).sum()
Intersect(labs, preds, c) ==
    Cardinality({k \in 1..Len(labs) : labs[k] # c /\ preds[k] # c})

\* "(labels_c_sum > 0) or (pred_c_sum > 0)"
Seen(labs, preds, c) == SumNotEqual(labs, c) > 0 \/ SumNotEqual(preds, c) > 0

\* the union counts the intersection twice
ClassIouUnionTwice(labs, preds, c) ==
    Rat(Intersect(labs, preds, c), SumNotEqual(labs, c) + SumNotEqual(preds, c))

\* union = labels_c_sum + pred_c_sum - intersect; intersect / union
ClassIou(labs, preds, c) ==
    Rat(Intersect(labs, preds, c),
        SumNotEqual(labs, c) + SumNotEqual(preds, c) - Intersect(labs, preds, c))

\* "mean_iou / seen_classes if seen_classes else 0"
MeanOver(total, seen) == IF seen # 0 THEN RatDivInt(total, seen) ELSE <<0, 1>>

IouGrids == [1..IouCells -> 0..MaxLabel]

IouInit ==
    /\ labels \in IouGrids
    /\ predictions \in IouGrids
    /\ n_classes \in 1..MaxClasses
    /\ cls = 0
    /\ mean_iou = <<0, 1>>
    /\ seen_classes = 0
    /\ class_iou = <<>>
    /\ istatus = "running"

\* one iteration of "for c in range(n_classes)", the class seen
IouClassSeen ==
    /\ istatus = "running"
    /\ cls < n_classes
    /\ Seen(labels, predictions, cls)
    /\ seen_classes' = seen_classes + 1
    /\ mean_iou' = RatAdd(mean_iou, ClassIou(labels, predictions, cls))
    /\ class_iou' = Append(class_iou, [c |-> cls, iou |-> ClassIou(labels, predictions, cls)])
    /\ cls' = cls + 1
    /\ UNCHANGED <<labels, predictions, n_classes, istatus>>
    /\ UNCHANGED <<samplerVars, rasterVars, evalVars>>

\* one iteration of "for c in range(n_classes)", the class not seen
IouClassUnseen ==
    /\ istatus = "running"
    /\ cls < n_classes
    /\ ~Seen(labels, predictions, cls)
    /\ cls' = cls + 1
    /\ UNCHANGED <<labels, predictions, n_classes, mean_iou, seen_classes, class_iou, istatus>>
    /\ UNCHANGED <<samplerVars, rasterVars, evalVars>>

\* the final division and the return
IouReturn ==
    /\ istatus = "running"
    /\ cls = n_classes
    /\ mean_iou' = MeanOver(mean_iou, seen_classes)
    /\ istatus' = "returned"
    /\ UNCHANGED <<labels, predictions, n_classes, cls, seen_classes, class_iou>>
    /\ UNCHANGED <<samplerVars, rasterVars, evalVars>>

-----------------------------------------------------------------------------
(* evaluation *)

\* a threat score of helper.compute_ts_road_map: a number or NaN
NaN == [nan |-> TRUE, num |-> <<0, 1>>]
Num(n, d) == [nan |-> FALSE, num |-> Rat(n, d)]
TsValues == {NaN, Num(1, 1)}

\* the annotations of the model's batches: none, one box inside the grid, one
\* box that makes bounding_box_to_matrix_image raise
EvalAnnotations ==
    { <<>>,
      <<[category |-> 2, bb |-> <<<<-799, -797, -798, -799>>, <<-798, -794, -795, -797>>>>]>>,
      <<[category |-> 5, bb |-> <<<<-799, -797, -798, -799>>, <<798, 803, 800, 800>>>>]>> }

\* The target of a batch is what the data loader (not in this file) collates:
\* either one mapping with 'bounding_box' and 'category', which is what
\* bounding_box_to_matrix_image reads, or the tuple of the samples' mappings.
Targets(n) ==
    [kind : {"mapping"}, boxes : EvalAnnotations]
        \cup {[kind |-> "tuple", items |-> [i \in 1..n |-> a]] : a \in EvalAnnotations}

\* one_target['bounding_box'] with one_target a tuple: TypeError
TargetSubscriptable(target) == target.kind = "mapping"

\* get_ts_for_batch_binary: one score per index of range(len(road_image))
BatchTs(k, n, scores) == [i \in 1..n |-> [batch |-> k, sample |-> i, ts |-> scores[i]]]

\* the list is replaced by the scores of the batch
ExtendTsOverwrite(ts, batch_ts) == batch_ts

\* ts_list.extend(batch_ts)
ExtendTs(ts, batch_ts) == ts \o batch_ts

RECURSIVE SumTs(_)
SumTs(ts) ==
    IF ts = <<>> THEN <<0, 1>>
    ELSE IF Head(ts).ts.nan THEN SumTs(Tail(ts))
         ELSE RatAdd(Head(ts).ts.num, SumTs(Tail(ts)))

\* np.nanmean(ts_list): NaN (and a RuntimeWarning) when no entry is a number
NanMean(ts) ==
    LET nums == {k \in 1..Len(ts) : ~ts[k].ts.nan}
    IN IF nums = {} THEN NaN
       ELSE [nan |-> FALSE, num |-> RatDivInt(SumTs(ts), Cardinality(nums))]

NoGrid == [shape |-> <<>>, map |-> NewGrid]

EvalInit ==
    /\ pulled = <<>>
    /\ ts_list = <<>>
    /\ predicted_maps = <<>>
    /\ iou_list = <<>>
    /\ bbox_matrix = NoGrid
    /\ estatus = "running"
    /\ result = <<>>

\* one iteration of "for sample, target, road_image, extra in tqdm(data_loader)"
\* that reaches its end; n is len(road_image)
EvalBatch ==
    /\ estatus = "running"
    /\ Len(pulled) < MaxBatches
    /\ \E n \in 1..MaxSamples : \E target \in Targets(n) : \E scores \in [1..n -> TsValues] :
          LET k == Len(pulled) + 1
              r == RasterFrom(NewGrid, target.boxes, 1)
              labs == [shape |-> <<GridSize, GridSize>>, map |-> r.map]
              preds == <<n, GridSize, GridSize>>
          IN /\ TargetSubscriptable(target)
             /\ r.status = "returned"
             /\ pulled' = Append(pulled, [n |-> n, target |-> target])
             /\ bbox_matrix' = labs
             /\ ts_list' = ExtendTs(ts_list, BatchTs(k, n, scores))
             /\ predicted_maps' = Append(predicted_maps, [batch |-> k, shape |-> preds])
             /\ iou_list' = Append(iou_list,
                               [batch |-> k, labels |-> labs.shape, predictions |-> preds])
    /\ UNCHANGED <<estatus, result>>
    /\ UNCHANGED <<samplerVars, rasterVars, iouVars>>

\* the iteration stops at line 74: the target is a tuple
EvalBatchTypeError ==
    /\ estatus = "running"
    /\ Len(pulled) < MaxBatches
    /\ \E n \in 1..MaxSamples : \E target \in Targets(n) :
          /\ ~TargetSubscriptable(target)
          /\ pulled' = Append(pulled, [n |-> n, target |-> target])
    /\ estatus' = "TypeError"
    /\ UNCHANGED <<ts_list, predicted_maps, iou_list, bbox_matrix, result>>
    /\ UNCHANGED <<samplerVars, rasterVars, iouVars>>

\* the iteration stops at line 74: bounding_box_to_matrix_image raises
EvalBatchIndexError ==
    /\ estatus = "running"
    /\ Len(pulled) < MaxBatches
    /\ \E n \in 1..MaxSamples : \E target \in Targets(n) :
          /\ TargetSubscriptable(target)
          /\ RasterFrom(NewGrid, target.boxes, 1).status = "IndexError"
          /\ pulled' = Append(pulled, [n |-> n, target |-> target])
    /\ estatus' = "IndexError"
    /\ UNCHANGED <<ts_list, predicted_maps, iou_list, bbox_matrix, result>>
    /\ UNCHANGED <<samplerVars, rasterVars, iouVars>>

\* the data loader is exhausted: return np.nanmean(ts_list), predicted_maps, iou_list
EvalReturn ==
    /\ estatus = "running"
    /\ result' = [mean_ts |-> NanMean(ts_list), predicted_maps |-> predicted_maps,
                  iou_list |-> iou_list]
    /\ estatus' = "returned"
    /\ UNCHANGED <<pulled, ts_list, predicted_maps, iou_list, bbox_matrix>>
    /\ UNCHANGED <<samplerVars, rasterVars, iouVars>>

-----------------------------------------------------------------------------
(* Idle values of the other components *)

RasterIdle ==
    /\ one_target = <<>> /\ idx = 0 /\ bounding_box_map = NewGrid /\ rstatus = "idle"

IouIdle ==
    /\ labels = <<>> /\ predictions = <<>> /\ n_classes = 0 /\ cls = 0
    /\ mean_iou = <<0, 1>> /\ seen_classes = 0 /\ class_iou = <<>> /\ istatus = "idle"

EvalIdle ==
    /\ pulled = <<>> /\ ts_list = <<>> /\ predicted_maps = <<>> /\ iou_list = <<>>
    /\ bbox_matrix = NoGrid /\ estatus = "idle" /\ result = <<>>

-----------------------------------------------------------------------------
(* Specification of the sampler *)

InitSampler == SamplerInit /\ RasterIdle /\ IouIdle /\ EvalIdle

NextSampler ==
    \/ SamplerDraw
    \/ SamplerShuffle
    \/ SamplerYield
    \/ SamplerExhaust
    \/ SamplerIterAgain

SpecSampler == InitSampler /\ [][NextSampler]_vars

-----------------------------------------------------------------------------
(* Specification of the rasterizer *)

InitRaster == RasterInit /\ SamplerIdle /\ IouIdle /\ EvalIdle

NextRaster ==
    \/ RasterBox
    \/ RasterReturn

SpecRaster == InitRaster /\ [][NextRaster]_vars

-----------------------------------------------------------------------------
(* Properties of the rasterizer *)

\* floor and ceiling of the grid value of coordinate u / Tick, from their
\* definitions: the greatest integer not above, the least integer not below
\* (searched among the integers within a cell of the grid value)
Near(u) == {(u * Scale + Offset * Tick) \div Tick + d : d \in -1..1}
FloorOfGrid(u) ==
    CHOOSE n \in Near(u) :
        n * Tick <= u * Scale + Offset * Tick /\ u * Scale + Offset * Tick < (n + 1) * Tick
CeilOfGrid(u) ==
    CHOOSE n \in Near(u) :
        (n - 1) * Tick < u * Scale + Offset * Tick /\ u * Scale + Offset * Tick <= n * Tick

\* the grid-space rectangle of a box: floor of the per-axis minimum, ceiling of
\* the per-axis maximum; x is the axis of the second row of bb (the grid rows)
RectOf(bb) ==
    [min_y |-> FloorOfGrid(MinOf(bb[1])), min_x |-> FloorOfGrid(MinOf(bb[2])),
     max_y |-> CeilOfGrid(MaxOf(bb[1])), max_x |-> CeilOfGrid(MaxOf(bb[2]))]

\* the row that "index -i from the end of the axis" names, for 0 <= i < 800
RowFromEnd(i) == IF i = 0 THEN 0 ELSE GridSize - i

\* the rectangle lies inside [0, 800) on both axes
InGrid(rect) ==
    /\ 0 <= rect.min_x /\ rect.max_x <= GridSize
    /\ 0 <= rect.min_y /\ rect.max_y <= GridSize

\* the cells of the part of the rectangle that lies in the grid
RectCells(rect) ==
    {<<RowFromEnd(i), j>> :
        i \in {i \in rect.min_x..(rect.max_x - 1) : 0 <= i /\ i < GridSize},
        j \in {j \in rect.min_y..(rect.max_y - 1) : 0 <= j /\ j < GridSize}}

\* the cells holding another label than the background: a cell that was never
\* written holds the background
NonBackground(m) == {cell \in DOMAIN m : Cell(m, cell[1], cell[2]) # Background}

WrittenInGrid(m) == DOMAIN m \subseteq (0..(GridSize - 1)) \X (0..(GridSize - 1))

AllInGrid == \A k \in 1..Len(one_target) : InGrid(RectOf(one_target[k].bb))

\* C5: for a single box of label L whose rectangle lies inside [0,800) on both
\* axes, exactly the cells of the rectangle (row -i for row value i) hold L,
\* every other cell holds 9, and the cells holding L number height * width.
C5_SingleBoxRectangle ==
    (rstatus = "returned" /\ Len(one_target) = 1 /\ AllInGrid) =>
        LET rect == RectOf(one_target[1].bb)
            L == one_target[1].category
        IN /\ WrittenInGrid(bounding_box_map)
           /\ \A cell \in RectCells(rect) :
                 Cell(bounding_box_map, cell[1], cell[2]) = L
           /\ NonBackground(bounding_box_map) = RectCells(rect)
           /\ Cardinality({cell \in DOMAIN bounding_box_map :
                             Cell(bounding_box_map, cell[1], cell[2]) = L})
                 = (rect.max_x - rect.min_x) * (rect.max_y - rect.min_y)

C5_Witness ==
    /\ rstatus = "returned" /\ Len(one_target) = 1 /\ AllInGrid
    /\ RectOf(one_target[1].bb) = [min_y |-> 1, min_x |-> 0, max_y |-> 3, max_x |-> 2]
    /\ one_target[1].category = 5
    /\ Cell(bounding_box_map, 0, 1) = 5
    /\ Cell(bounding_box_map, GridSize - 1, 2) = 5
    /\ Cell(bounding_box_map, 1, 1) = Background

\* the boxes, by position in the input, whose rectangle covers the cell
Covering(cell) ==
    {k \in 1..Len(one_target) : cell \in RectCells(RectOf(one_target[k].bb))}

Last(ks) == CHOOSE k \in ks : \A o \in ks : o <= k

\* C6: for in-range boxes, every cell ends with the label of the last box in
\* input order whose rectangle covers it, and with 9 if no box covers it.
C6_LastWriteWins ==
    (rstatus = "returned" /\ AllInGrid) =>
        /\ WrittenInGrid(bounding_box_map)
        /\ \A cell \in DOMAIN bounding_box_map
                       \cup UNION {RectCells(RectOf(one_target[k].bb)) :
                                     k \in 1..Len(one_target)} :
              Cell(bounding_box_map, cell[1], cell[2]) =
                 IF Covering(cell) = {} THEN Background
                 ELSE one_target[Last(Covering(cell))].category

C6_Witness ==
    /\ rstatus = "returned" /\ AllInGrid /\ Len(one_target) = 2
    /\ one_target[1].category = 2 /\ one_target[2].category = 5
    /\ \E cell \in DOMAIN bounding_box_map :
          /\ Covering(cell) = {1, 2}
          /\ Cell(bounding_box_map, cell[1], cell[2]) = 5
    /\ \E cell \in DOMAIN bounding_box_map :
          /\ Covering(cell) = {1}
          /\ Cell(bounding_box_map, cell[1], cell[2]) = 2

\* C10: a box whose rectangle falls outside [0,800) is clamped to the grid or
\* the annotation is rejected with an error: when the function returns, every
\* cell it wrote is a cell of some box's rectangle.
C10_ClampedOrRejected ==
    rstatus = "returned" =>
        \A cell \in DOMAIN bounding_box_map : Covering(cell) # {}

-----------------------------------------------------------------------------
(* Specification of the IoU metric *)

InitIou == IouInit /\ SamplerIdle /\ RasterIdle /\ EvalIdle

NextIou ==
    \/ IouClassSeen
    \/ IouClassUnseen
    \/ IouReturn

SpecIou == InitIou /\ [][NextIou]_vars

-----------------------------------------------------------------------------
(* Properties of the IoU metric *)

IdenticalReturned == istatus = "returned" /\ labels = predictions

\* C7: for every grid G and every n_classes >= 1 the metric of (G, G) gives IoU
\* 1.0 for every seen class and an overall mean of exactly 1.0.
C7_IdenticalGridsMeanOne ==
    IdenticalReturned =>
        /\ \A k \in 1..Len(class_iou) : class_iou[k].iou = <<1, 1>>
        /\ mean_iou = <<1, 1>>

\* C7 as amended: for (G, G) every seen class has IoU 1.0 and the overall mean
\* is exactly 1.0 when at least one class is seen; no class is seen exactly
\* when n_classes = 1 and every cell of G is 0, and the result is then 0.
C7_IdenticalGridsMeanOneIfSeen ==
    IdenticalReturned =>
        /\ \A k \in 1..Len(class_iou) : class_iou[k].iou = <<1, 1>>
        /\ Len(class_iou) = seen_classes
        /\ seen_classes > 0 => mean_iou = <<1, 1>>
        /\ seen_classes = 0 => mean_iou = <<0, 1>>
        /\ seen_classes = 0 <=> (n_classes = 1 /\ \A k \in 1..Len(labels) : labels[k] = 0)

C7_Witness ==
    /\ IdenticalReturned
    /\ n_classes = 3
    /\ Range(labels) = {0, 2}
    /\ seen_classes = 3
    /\ mean_iou = <<1, 1>>

-----------------------------------------------------------------------------
(* Specification of the evaluation loop *)

InitEval == EvalInit /\ SamplerIdle /\ RasterIdle /\ IouIdle

NextEval ==
    \/ EvalBatch
    \/ EvalBatchTypeError
    \/ EvalBatchIndexError
    \/ EvalReturn

SpecEval == InitEval /\ [][NextEval]_vars

-----------------------------------------------------------------------------
(* Properties of the evaluation loop *)

\* the number of batches processed to the end of the loop body
Processed == IF estatus \in {"running", "returned"} THEN Len(pulled) ELSE Len(pulled) - 1

\* the number of 800x800 grids of a tensor of that shape
NumGrids(shape) == IF Len(shape) = 3 THEN shape[1] ELSE IF Len(shape) = 2 THEN 1 ELSE 0

RECURSIVE SamplesOf(_)
SamplesOf(k) == IF k = 0 THEN 0 ELSE SamplesOf(k - 1) + pulled[k].n

\* C8: for every batch, each sample's annotation is rasterized separately and
\* the results are stacked: the labels given to compute_bbox_matrix_iou are one
\* 800x800 grid per sample of the batch, and the tuple of the samples'
\* annotations is rasterized, not refused.
C8_OneGridPerSample ==
    /\ \A k \in 1..Len(iou_list) : NumGrids(iou_list[k].labels) = pulled[k].n
    /\ estatus # "TypeError"

\* C9: after k batches the threat-score list holds one entry per sample, in
\* batch order, the predicted maps and the IoUs one entry per batch, the i-th
\* from the i-th batch; on an empty data source evaluation returns, with empty
\* predicted-map and IoU collections.
C9_AccumulatorSizes ==
    /\ Len(ts_list) = SamplesOf(Processed)
    /\ \A p \in 1..Len(ts_list) :
          \E k \in 1..Processed :
             /\ ts_list[p].batch = k
             /\ ts_list[p].sample = p - SamplesOf(k - 1)
             /\ ts_list[p].sample \in 1..pulled[k].n
    /\ Len(predicted_maps) = Processed
    /\ Len(iou_list) = Processed
    /\ \A k \in 1..Processed : predicted_maps[k].batch = k /\ iou_list[k].batch = k
    /\ (estatus = "running" /\ pulled = <<>>) => ENABLED EvalReturn
    /\ (estatus = "returned" /\ pulled = <<>>) =>
          result.predicted_maps = <<>> /\ result.iou_list = <<>>
    /\ estatus = "returned" =>
          result.predicted_maps = predicted_maps /\ result.iou_list = iou_list

C9_Witness ==
    /\ estatus = "running"
    /\ Len(pulled) = 2 /\ pulled[1].n = 2 /\ pulled[2].n = 1
    /\ Len(ts_list) = 3 /\ ts_list[3].batch = 2
    /\ Len(predicted_maps) = 2 /\ Len(iou_list) = 2

-----------------------------------------------------------------------------
(* Properties of the sampler *)

\* the least q with q * B >= N
CeilDiv(N, B) == CHOOSE q \in 0..N : q * B >= N /\ (q = 0 \/ (q - 1) * B < N)

\* the greatest q with q * B <= N
FloorDiv(N, B) == CHOOSE q \in 0..N : q * B <= N /\ (q + 1) * B > N

\* the k-th (0-based) block of B consecutive draws of the underlying sequence
Block(k) ==
    SubSeq(sampler, k * batch_size + 1, Min((k + 1) * batch_size, Len(sampler)))

TraversalDone == spc = "done"

\* C1: with drop_last = false a full traversal yields exactly ceil(N/B) batches,
\* and every index of the underlying sequence is in exactly one yielded batch,
\* exactly once.
C1_KeepLastPartition ==
    (TraversalDone /\ ~drop_last) =>
        /\ Len(yielded) = CeilDiv(Len(sampler), batch_size)
        /\ \A x \in 0..(MaxN - 1) : Count(Flatten(yielded), x) = Count(sampler, x)
        /\ \A x \in Range(sampler) :
              Cardinality({k \in 1..Len(yielded) : x \in Range(yielded[k])}) = 1

C1_Witness ==
    /\ TraversalDone /\ ~drop_last
    /\ Len(sampler) = 3 /\ batch_size = 2
    /\ Len(yielded) = 2
    /\ \E k \in 1..2 : Len(yielded[k]) = 1

\* C2: with drop_last = true a full traversal yields only batches of length B,
\* B * floor(N/B) indices in all, and the indices not yielded are exactly the
\* last N mod B indices of the underlying sequence.
C2_DropLastTruncates ==
    (TraversalDone /\ drop_last) =>
        LET N == Len(sampler)
            B == batch_size
        IN /\ \A k \in 1..Len(yielded) : Len(yielded[k]) = B
           /\ Len(Flatten(yielded)) = B * FloorDiv(N, B)
           /\ Range(sampler) \ Range(Flatten(yielded))
                 = {sampler[k] : k \in (N - (N % B) + 1)..N}
           /\ \A x \in Range(Flatten(yielded)) : Count(Flatten(yielded), x) = 1

C2_Witness ==
    /\ TraversalDone /\ drop_last
    /\ Len(sampler) = 3 /\ batch_size = 2
    /\ Len(yielded) = 1
    /\ sampler[3] \notin Range(Flatten(yielded))

\* C3: every yielded batch is a block of consecutive draws in their original
\* order, the order of the yields is a permutation of the blocks, and two
\* traversals of the same sampler yield the same set of batches.
C3_BlocksOnlyReordered ==
    /\ spc \in {"yield", "done"} =>
          /\ Range(rand_index) = 0..(Len(all_batches) - 1)
          /\ Injective(rand_index)
          /\ \A p \in 1..Len(yielded) : yielded[p] = Block(rand_index[p])
    /\ (TraversalDone /\ traversal > 1) => Range(yielded) = Range(prev_yielded)

C3_Witness ==
    /\ TraversalDone /\ traversal = 2
    /\ Len(yielded) = 3 /\ batch_size = 1
    /\ yielded # prev_yielded
    /\ rand_index = <<2, 0, 1>>

\* C4: __len__ equals the number of batches one full traversal yields, for both
\* values of drop_last.
C4_LenMatchesIter ==
    TraversalDone => SamplerLen(Len(sampler), batch_size, drop_last) = Len(yielded)

C4_Witness ==
    /\ TraversalDone
    /\ Len(sampler) = 3 /\ batch_size = 2 /\ ~drop_last
    /\ SamplerLen(Len(sampler), batch_size, drop_last) = 2
    /\ Len(yielded) = 2

=============================================================================
